---- MODULE Spec2Model ----
(***************************************************************************)
(* A model of phylogenetics/project.py: the PhylogeneticsProject object    *)
(* (project_dir + data), the filesystem it touches, and its operations     *)
(* __init__, to_pickle, load_pickle, read_data, compute_tree and           *)
(* compute_reconstruction.  The external collaborators (phylopandas        *)
(* readers/writers, PhyML, pyasr, pickle) are modelled by their contract:  *)
(* what they return is drawn from small sets of tables, and they may fail. *)
(***************************************************************************)
EXTENDS Integers, Sequences, FiniteSets, TLC

VARIABLES
    disk,         \* filesystem: path -> "absent" | "dir" | content of a regular file
    snapfile,     \* pickle files: path -> serialized object (<<>> when the file is absent)
    constructed,  \* a PhylogeneticsProject object exists
    project_dir,  \* self.project_dir
    data,         \* self.data, a DataFrame [columns, rows]
    pc,           \* statement of compute_tree about to run ("idle" outside a call)
    ct,           \* local variables of the running compute_tree call
    last          \* the most recent call: operation, arguments, outcome, value returned

vars == <<disk, snapfile, constructed, project_dir, data, pc, ct, last>>

-----------------------------------------------------------------------------
(* Bounds *)

\* number of sequences in the sequence file handed to read_data
MaxSeqs == 3

-----------------------------------------------------------------------------
(* Values *)

\* pandas' missing value
NaN == "NaN"

\* candidate project directories
Dirs == {"projA", "projB"}

\* caller-chosen pickle paths
SnapPaths == {"snap.pkl"}

\* data files handed to read_data
DataPaths == {"seqs.fasta", "bad.txt"}

\* schema names handed to read_data
Schemas == {"fasta", "csv", "nexus"}

\* what PhyML may leave in its output file
TreeContents == {"treeA", "treeD", "garbage"}

DataFrame(columns, rows) == [columns |-> columns, rows |-> rows]

NoFrame == DataFrame(<<>>, <<>>)

Range(s) == {s[i] : i \in DOMAIN s}

\* the values of column `on`, row by row
Keys(df, on) == [i \in DOMAIN df.rows |-> df.rows[i][on]]

Unique(s) == \A i, j \in DOMAIN s : s[i] = s[j] => i = j

-----------------------------------------------------------------------------
(* __init__ *)

os_path_exists(d, p) == p \in DOMAIN d /\ d[p] # "absent"

os_path_join(dir, fname) == dir \o "/" \o fname

\* the guard without the overwrite test
init_raises_mut(exists, overwrite) == exists

\* line 25: the guard of the raise
init_raises(exists, overwrite) == exists /\ overwrite = FALSE

\* lines 27-28: elif not os.path.exists(project_dir): os.makedirs(project_dir)
init_makedirs(d, dir) ==
    IF ~os_path_exists(d, dir) THEN [d EXCEPT ![dir] = "dir"] ELSE d

\* lines 31-40
columns ==
    <<"uid", "description", "id", "label", "sequence", "type", "parent", "branch_length">>

\* line 43: pd.DataFrame(columns=columns)
init_data == DataFrame(columns, <<>>)

-----------------------------------------------------------------------------
(* The record of a call *)

NoArgs ==
    [df |-> NoFrame, id_col |-> "", sequence_col |-> "", working_dir |-> "",
     altall_cutoff |-> "", aaRatefile |-> ""]

\* no parser was invoked
NoHandler == [target |-> "", method |-> "", path |-> "", kwargs |-> ""]

NoCall ==
    [op |-> "none", result |-> "none", dir |-> "", overwrite |-> FALSE,
     existed |-> FALSE, path |-> "", schema |-> "",
     kwargs |-> "", handler |-> NoHandler, outpath |-> "", ret |-> NoFrame, ret_dir |-> "",
     steps |-> <<>>, returncode |-> 0, rec |-> NoArgs, replaced |-> FALSE]

Call(fields) == fields @@ NoCall

NoLocals ==
    [path |-> "", returncode |-> 0, outpath |-> "",
     parsed |-> NoFrame, tree_data |-> NoFrame, steps |-> <<>>]

-----------------------------------------------------------------------------
(* Initial states: no project object yet; projB is a fresh path, projA may  *)
(* be absent, a directory (possibly holding a tree file of an earlier run)  *)
(* or a regular file; the pickle path may hold an older pickle.             *)

FileNames == {"compute_tree.phy", "compute_tree.phy_phyml_tree",
              "compute_tree.phy_phyml_tree.txt"}

FilePaths == {os_path_join(d, f) : d \in Dirs, f \in FileNames}

OldPickle == <<"elsewhere", columns, <<>>>>

Init ==
    /\ disk \in [Dirs \cup FilePaths -> {"absent", "dir", "file", "treeA"}]
    /\ disk["projA"] \in {"absent", "dir", "file"}
    /\ disk["projB"] = "absent"
    /\ \A d \in Dirs, f \in FileNames :
          /\ disk[os_path_join(d, f)] \in {"absent", "treeA"}
          /\ disk[os_path_join(d, f)] = "treeA" =>
                disk[d] = "dir" /\ f = "compute_tree.phy_phyml_tree"
    /\ snapfile \in [SnapPaths -> {<<>>, OldPickle}]
    /\ constructed = FALSE
    /\ project_dir = ""
    /\ data = NoFrame
    /\ pc = "idle"
    /\ ct = NoLocals
    /\ last = NoCall

\* PhylogeneticsProject(project_dir, overwrite), lines 22-43
init(dir, overwrite) ==
    /\ ~constructed
    /\ pc = "idle"
    /\ LET exists == os_path_exists(disk, dir) IN
       IF init_raises(exists, overwrite)
       THEN /\ last' = Call([op |-> "init", result |-> "ProjectAlreadyExists",
                             dir |-> dir, overwrite |-> overwrite, existed |-> exists])
            /\ UNCHANGED <<disk, snapfile, constructed, project_dir, data, pc, ct>>
       ELSE /\ disk' = init_makedirs(disk, dir)
            /\ project_dir' = dir
            /\ data' = init_data
            /\ constructed' = TRUE
            /\ last' = Call([op |-> "init", result |-> "ok", dir |-> dir,
                             overwrite |-> overwrite, existed |-> exists])
            /\ UNCHANGED <<snapfile, pc, ct>>

-----------------------------------------------------------------------------
(* to_pickle / load_pickle *)

\* position of column c in the column list cols
IndexOf(cols, c) == CHOOSE j \in DOMAIN cols : cols[j] = c

\* pickling the table alone, without the object around it
pickle_dump_mut(dir, df) ==
    <<"", df.columns,
      [i \in DOMAIN df.rows |-> [j \in DOMAIN df.columns |-> df.rows[i][df.columns[j]]]]>>

\* line 68: pickle.dump(self, f); the object is written as its directory,
\* its column list and its rows as tuples of cell values in column order
pickle_dump(dir, df) ==
    <<dir, df.columns,
      [i \in DOMAIN df.rows |-> [j \in DOMAIN df.columns |-> df.rows[i][df.columns[j]]]]>>

\* line 55: pickle.load(f); rebuilds the object from the serialized form
pickle_load(blob) ==
    [project_dir |-> blob[1],
     data |-> DataFrame(blob[2],
                 [i \in DOMAIN blob[3] |->
                     [c \in Range(blob[2]) |-> blob[3][i][IndexOf(blob[2], c)]]])]

\* to_pickle(filename), lines 58-68: open(filename, 'wb') truncates the file
to_pickle(filename) ==
    /\ constructed
    /\ pc = "idle"
    /\ snapfile' = [snapfile EXCEPT ![filename] = pickle_dump(project_dir, data)]
    /\ last' = Call([op |-> "to_pickle", result |-> "ok", path |-> filename,
                     replaced |-> (snapfile[filename] # <<>>)])
    /\ UNCHANGED <<disk, constructed, project_dir, data, pc, ct>>

\* load_pickle(filename), lines 45-56: a static method, it returns the
\* unpickled object; open(filename, 'rb') fails when there is no such file
load_pickle(filename) ==
    /\ pc = "idle"
    /\ IF snapfile[filename] = <<>>
       THEN last' = Call([op |-> "load_pickle", result |-> "FileNotFound",
                          path |-> filename])
       ELSE LET obj == pickle_load(snapfile[filename]) IN
            last' = Call([op |-> "load_pickle", result |-> "ok", path |-> filename,
                          ret |-> obj.data, ret_dir |-> obj.project_dir])
    /\ UNCHANGED <<disk, snapfile, constructed, project_dir, data, pc, ct>>

-----------------------------------------------------------------------------
(* read_data *)

\* columns of a table parsed from a sequence file
SeqColumns == <<"id", "sequence", "description", "label", "uid">>

SeqRow(uid, id, sequence) ==
    [id |-> id, sequence |-> sequence, description |-> id, label |-> id, uid |-> uid]

\* the tables the parsers return for the data files: sequence number i comes
\* back with uid "u<i>"
FileTable(path) ==
    CASE path = "seqs.fasta" ->
            DataFrame(SeqColumns,
                [i \in 1..MaxSeqs |->
                    SeqRow("u" \o ToString(i), "seq" \o ToString(i),
                           IF i = 1 THEN "ACD" ELSE "AGE")])
      [] OTHER -> NoFrame

\* the parser rejects the file
ParseFails(path) == path = "bad.txt"

\* read_* methods of the phylo accessor (self.data.phylo)
PhyloMethods == {"read_fasta"}

\* read_* methods of the table itself (self.data)
FrameMethods == {"read_fasta", "read_csv"}

\* keyword options handed through to the parser
KwargSets == {"{}", "{'use_uids': False}"}

\* line 73: 'read_{}'.format(schema)
method_name(schema) == "read_" \o schema

\* the lookup without the fallback to the table
getattr_method_mut(name) ==
    IF name \in PhyloMethods THEN "phylo" ELSE "AttributeError"

\* lines 74-77: getattr on the accessor, and on the table when that raises
getattr_method(name) ==
    IF name \in PhyloMethods THEN "phylo"
    ELSE IF name \in FrameMethods THEN "data"
    ELSE "AttributeError"

\* the parsed rows appended to the current ones
read_data_assign_mut(old, returned) ==
    DataFrame(returned.columns, old.rows \o returned.rows)

\* line 78: self.data = method(path, **kwargs)
read_data_assign(old, returned) == returned

\* line 78: the call method(path, **kwargs)
invoke(target, name, path, kwargs) ==
    [target |-> target, method |-> name, path |-> path, kwargs |-> kwargs]

\* read_data(path, schema, **kwargs), lines 70-78
read_data(path, schema, kwargs) ==
    /\ constructed
    /\ pc = "idle"
    /\ LET name == method_name(schema)
           target == getattr_method(name)
           call == [op |-> "read_data", path |-> path, schema |-> schema,
                    kwargs |-> kwargs]
       IN  IF target = "AttributeError"
           THEN /\ last' = Call([result |-> "AttributeError"] @@ call)
                /\ UNCHANGED data
           ELSE LET handler == invoke(target, name, path, kwargs) IN
                IF ParseFails(handler.path)
                THEN /\ last' = Call([result |-> "ParseError", handler |-> handler] @@ call)
                     /\ UNCHANGED data
                ELSE /\ data' = read_data_assign(data, FileTable(handler.path))
                     /\ last' = Call([result |-> "ok", handler |-> handler,
                                      ret |-> FileTable(handler.path)] @@ call)
    /\ UNCHANGED <<disk, snapfile, constructed, project_dir, pc, ct>>

-----------------------------------------------------------------------------
(* compute_tree *)

\* columns of a table parsed from a tree file
TreeColumns == <<"type", "id", "parent", "branch_length", "label", "uid">>

TreeRow(type, id, parent, branch_length, uid) ==
    [type |-> type, id |-> id, parent |-> parent, branch_length |-> branch_length,
     label |-> id, uid |-> uid]

\* the table the tree reader returns for the content of a tree file: the
\* reader assigns fresh uids, the leaf names come back in the id column
TreeTable(content) ==
    CASE content = "treeA" ->
            DataFrame(TreeColumns, <<TreeRow("leaf", "u1", "n0", "0.1", "x1"),
                                     TreeRow("leaf", "u2", "n0", "0.2", "x2"),
                                     TreeRow("node", NaN, NaN, NaN, "n0")>>)
      [] content = "treeD" ->
            DataFrame(TreeColumns, <<TreeRow("leaf", "u1", "n0", "0.1", "x1"),
                                     TreeRow("leaf", "u1", "n0", "0.2", "x2"),
                                     TreeRow("node", NaN, NaN, NaN, "n0")>>)
      [] OTHER -> NoFrame

\* the statements of compute_tree in program order (lines 93, 112, 119, 125, 128, 131)
ct_order == <<"to_phylip", "run", "locate", "read_newick", "swap", "combine">>

\* the statement executed after statement number i
ct_after(i) == IF i < Len(ct_order) THEN ct_order[i + 1] ELSE "idle"

StepNo(step) == CHOOSE i \in DOMAIN ct_order : ct_order[i] = step

\* a statement of compute_tree raised: the call ends, self is untouched
ct_fail(result) ==
    /\ pc' = "idle"
    /\ ct' = NoLocals
    /\ last' = Call([op |-> "compute_tree", result |-> result, steps |-> ct.steps,
                     returncode |-> ct.returncode, outpath |-> ct.outpath])

\* a statement of compute_tree completed: go on to the next one
ct_goto(step, locals) ==
    /\ pc' = ct_after(StepNo(step))
    /\ ct' = [locals EXCEPT !.steps = Append(ct.steps, step)]

\* lines 89-93: path = os.path.join(...); self.data.phylo.to_phylip(filename=path).
\* The writer cannot create the file when project_dir is not a directory, and
\* may itself reject the table.
compute_tree ==
    /\ constructed
    /\ pc = "idle"
    /\ LET path == os_path_join(project_dir, "compute_tree.phy") IN
       \/ /\ disk[project_dir] = "dir"
          /\ disk' = [disk EXCEPT ![path] = "phylip"]
          /\ pc' = ct_after(1)
          /\ ct' = [NoLocals EXCEPT !.path = path, !.steps = <<"to_phylip">>]
          /\ UNCHANGED last
       \/ /\ pc' = "idle"
          /\ ct' = NoLocals
          /\ last' = Call([op |-> "compute_tree", result |-> "WriteError"])
          /\ UNCHANGED disk
    /\ UNCHANGED <<snapfile, constructed, project_dir, data>>

\* subprocess.run(cml_args, check=True)
run_raises_mut(returncode) == returncode # 0

\* line 112: subprocess.run(cml_args) has no check=True and `output` is never read
run_raises(returncode) == FALSE

\* lines 96-112: build the command line and run PhyML to completion.  The
\* executable may be missing; otherwise it exits with some return code and
\* may have written a tree file under either name (an old PhyML writes the
\* '.txt' name).
ct_run ==
    /\ pc = "run"
    /\ \/ /\ ct_fail("ToolNotAvailable")
          /\ UNCHANGED disk
       \/ \E returncode \in {0, 1} :
             /\ \/ UNCHANGED disk
                \/ \E c \in TreeContents :
                      disk' = [disk EXCEPT
                                 ![os_path_join(project_dir, "compute_tree.phy_phyml_tree")] = c]
                \/ disk' = [disk EXCEPT
                              ![os_path_join(project_dir, "compute_tree.phy_phyml_tree.txt")] = "treeA"]
             /\ IF run_raises(returncode)
                THEN /\ pc' = "idle"
                     /\ ct' = NoLocals
                     /\ last' = Call([op |-> "compute_tree", result |-> "CalledProcessError",
                                      steps |-> ct.steps, returncode |-> returncode])
                ELSE /\ ct_goto("run", [ct EXCEPT !.returncode = returncode])
                     /\ UNCHANGED last
    /\ UNCHANGED <<snapfile, constructed, project_dir, data>>

\* the expected output path without the '.txt' retry
locate_outpath_mut(d, dir) == os_path_join(dir, "compute_tree.phy_phyml_tree")

\* lines 115-120: the expected output path, with '.txt' appended when it is absent
locate_outpath(d, dir) ==
    LET outpath == os_path_join(dir, "compute_tree.phy_phyml_tree") IN
    IF ~os_path_exists(d, outpath) THEN outpath \o ".txt" ELSE outpath

ct_locate ==
    /\ pc = "locate"
    /\ ct_goto("locate", [ct EXCEPT !.outpath = locate_outpath(disk, project_dir)])
    /\ UNCHANGED <<disk, snapfile, constructed, project_dir, data, last>>

\* line 125: tree_data = ph.read_newick(outpath)
ct_read_newick ==
    /\ pc = "read_newick"
    /\ IF ~os_path_exists(disk, ct.outpath)
       THEN ct_fail("OutputNotFound")
       ELSE IF disk[ct.outpath] \notin {"treeA", "treeD"}
       THEN ct_fail("ParseError")
       ELSE /\ ct_goto("read_newick", [ct EXCEPT !.parsed = TreeTable(disk[ct.outpath]),
                                                 !.tree_data = TreeTable(disk[ct.outpath])])
            /\ UNCHANGED last
    /\ UNCHANGED <<disk, snapfile, constructed, project_dir, data>>

\* the assignment without the leaf mask
swap_leaf_uids_mut(tree_data) ==
    DataFrame(tree_data.columns,
        [i \in DOMAIN tree_data.rows |->
            [tree_data.rows[i] EXCEPT !.uid = tree_data.rows[i].id]])

\* line 128: tree_data.loc[tree_data.type == 'leaf', 'uid'] = tree_data.id
swap_leaf_uids(tree_data) ==
    DataFrame(tree_data.columns,
        [i \in DOMAIN tree_data.rows |->
            IF tree_data.rows[i].type = "leaf"
            THEN [tree_data.rows[i] EXCEPT !.uid = tree_data.rows[i].id]
            ELSE tree_data.rows[i]])

\* the re-identified tree table stored into self.data straight away
ct_swap_mut ==
    /\ pc = "swap"
    /\ data' = swap_leaf_uids(ct.tree_data)
    /\ ct_goto("swap", [ct EXCEPT !.tree_data = swap_leaf_uids(ct.tree_data)])
    /\ UNCHANGED <<disk, snapfile, constructed, project_dir, last>>

ct_swap ==
    /\ pc = "swap"
    /\ ct_goto("swap", [ct EXCEPT !.tree_data = swap_leaf_uids(ct.tree_data)])
    /\ UNCHANGED <<disk, snapfile, constructed, project_dir, data, last>>

\* DataFrame.phylo.combine(other, on): the keyed merge of the table library.
\* Rows of df0 whose key is in df1 are updated with df1's cells, the other rows
\* of df0 are kept, rows of df1 with a new key are appended; the columns are
\* those of df0 followed by the new ones of df1; absent cells are NaN.
combine_raises(df0, df1, on) ==
    ~Unique(Keys(df0, on)) \/ ~Unique(Keys(df1, on))

combine(df0, df1, on) ==
    LET IsNew(c) == c \notin Range(df0.columns)
        cols == df0.columns \o SelectSeq(df1.columns, IsNew)
        Cell(r, c) == IF c \in DOMAIN r THEN r[c] ELSE NaN
        Match(r) == {j \in DOMAIN df1.rows : df1.rows[j][on] = r[on]}
        Update(r) ==
            IF Match(r) = {}
            THEN [c \in Range(cols) |-> Cell(r, c)]
            ELSE LET s == df1.rows[CHOOSE j \in Match(r) : TRUE] IN
                 [c \in Range(cols) |-> IF c \in DOMAIN s THEN s[c] ELSE Cell(r, c)]
        Added(s) == s[on] \notin Range(Keys(df0, on))
        new == SelectSeq(df1.rows, Added)
    IN  DataFrame(cols,
            [i \in DOMAIN df0.rows |-> Update(df0.rows[i])]
            \o [i \in DOMAIN new |-> [c \in Range(cols) |-> Cell(new[i], c)]])

\* the tree table assigned without merging
merge_tree_mut(df, tree_data) == tree_data

\* line 131: self.data = self.data.phylo.combine(tree_data, on='uid')
merge_tree(df, tree_data) == combine(df, tree_data, "uid")

ct_combine ==
    /\ pc = "combine"
    /\ IF combine_raises(data, ct.tree_data, "uid")
       THEN /\ ct_fail("MergeError")
            /\ UNCHANGED data
       ELSE /\ data' = merge_tree(data, ct.tree_data)
            /\ pc' = ct_after(StepNo("combine"))
            /\ ct' = NoLocals
            /\ last' = Call([op |-> "compute_tree", result |-> "ok",
                             steps |-> Append(ct.steps, "combine"),
                             returncode |-> ct.returncode, outpath |-> ct.outpath,
                             ret |-> ct.parsed])
    /\ UNCHANGED <<disk, snapfile, constructed, project_dir>>

-----------------------------------------------------------------------------
(* compute_reconstruction *)

\* lines 148-156: the arguments handed to pyasr.reconstruct
reconstruct_args(df, id_col, sequence_col, dir, altall_cutoff, aaRatefile) ==
    [df |-> df, id_col |-> id_col, sequence_col |-> sequence_col,
     working_dir |-> dir, altall_cutoff |-> altall_cutoff, aaRatefile |-> aaRatefile]

\* a table of reconstructed ancestors only
Ancestors ==
    DataFrame(<<"uid", "sequence", "type">>,
              <<[uid |-> "n0", sequence |-> "ACE", type |-> "node"]>>)

\* the table with the sequences of its internal nodes filled in
Enriched(df) ==
    DataFrame(df.columns,
        [i \in DOMAIN df.rows |->
            IF df.rows[i].type = "node"
            THEN [df.rows[i] EXCEPT !.sequence = "ACE"]
            ELSE df.rows[i]])

\* what pyasr.reconstruct may return for a table
ReconstructReturns(df) ==
    {Ancestors} \cup
    (IF {"type", "sequence"} \subseteq Range(df.columns) THEN {Enriched(df)} ELSE {})

\* line 157: self.data = df
reconstruction_assign(old, df) == df

\* compute_reconstruction(id_col, sequence_col, altall_cutoff, aaRatefile), lines 134-157
compute_reconstruction(id_col, sequence_col, altall_cutoff, aaRatefile) ==
    /\ constructed
    /\ pc = "idle"
    /\ LET args == reconstruct_args(data, id_col, sequence_col, project_dir,
                                    altall_cutoff, aaRatefile)
           call == [op |-> "compute_reconstruction", rec |-> args]
       IN  \/ /\ last' = Call([result |-> "ReconstructionError"] @@ call)
              /\ UNCHANGED data
           \/ \E df \in ReconstructReturns(args.df) :
                 /\ data' = reconstruction_assign(data, df)
                 /\ last' = Call([result |-> "ok", ret |-> df] @@ call)
    /\ UNCHANGED <<disk, snapfile, constructed, project_dir, pc, ct>>

Next ==
    \/ \E dir \in Dirs, overwrite \in BOOLEAN : init(dir, overwrite)
    \/ \E filename \in SnapPaths : to_pickle(filename)
    \/ \E filename \in SnapPaths : load_pickle(filename)
    \/ \E path \in DataPaths, schema \in Schemas, kwargs \in KwargSets :
          read_data(path, schema, kwargs)
    \/ compute_tree
    \/ ct_run
    \/ ct_locate
    \/ ct_read_newick
    \/ ct_swap
    \/ ct_combine
    \/ \E aaRatefile \in {"lg", "jtt"} :
          compute_reconstruction("uid", "sequence", "0.2", aaRatefile)

Spec == Init /\ [][Next]_vars

-----------------------------------------------------------------------------
(* Properties *)

PrimaryOut == os_path_join(project_dir, "compute_tree.phy_phyml_tree")

SuffixedOut == PrimaryOut \o ".txt"

C2_SnapshotRoundTrip ==
    [][(last.op = "to_pickle" /\ last'.op = "load_pickle" /\ last'.path = last.path) =>
        /\ last'.result = "ok"
        /\ last'.ret_dir = project_dir
        /\ last'.ret = data]_vars

\* a table with merged tree rows came back from a pickle
C2_Witness ==
    /\ constructed
    /\ last.op = "load_pickle" /\ last.result = "ok"
    /\ last.ret_dir = project_dir
    /\ last.ret = data
    /\ Len(data.rows) = MaxSeqs + 1

C4_EmptyRejectedBeforeRun ==
    (constructed /\ Len(data.rows) = 0) => "run" \notin Range(ct.steps)

\* C5: after the re-identification step, and in the table after a successful
\* compute_tree, every leaf row of the parsed tree has its uid equal to its
\* id, and every other row keeps the uid the tree reader gave it.
C5_LeafReidentification ==
    /\ pc = "combine" =>
          \A i \in DOMAIN ct.parsed.rows :
             LET t == ct.parsed.rows[i]
                 r == ct.tree_data.rows[i] IN
             /\ r.uid = IF t.type = "leaf" THEN t.id ELSE t.uid
             /\ \A c \in DOMAIN t \ {"uid"} : r[c] = t[c]
    /\ (pc = "idle" /\ last.op = "compute_tree" /\ last.result = "ok") =>
          \A i \in DOMAIN last.ret.rows :
             LET t == last.ret.rows[i] IN
             \E k \in DOMAIN data.rows :
                /\ data.rows[k].uid = IF t.type = "leaf" THEN t.id ELSE t.uid
                /\ data.rows[k].type = t.type

\* leaves with distinct ids were re-identified and merged
C5_Witness ==
    /\ pc = "idle"
    /\ last.op = "compute_tree" /\ last.result = "ok"
    /\ \E k \in DOMAIN data.rows :
          data.rows[k].type = "leaf" /\ data.rows[k].uid = "u1"
    /\ \E k \in DOMAIN data.rows :
          data.rows[k].type = "node" /\ data.rows[k].uid = "n0"
    /\ \A k \in DOMAIN data.rows : data.rows[k].uid \notin {"x1", "x2"}

\* C6: a successful merge into a table with unique uids keeps the rows of both
\* sides: a row whose uid is in the tree table carries the tree's parent,
\* branch_length and type, a row whose uid is not in the tree table is
\* unchanged, and a tree row with a new uid is added.
C6_MergeCompleteness ==
    [][(pc = "combine" /\ pc' = "idle" /\ last'.result = "ok"
          /\ Unique(Keys(data, "uid"))) =>
        LET tree == ct.tree_data.rows
            Tree(r) == {j \in DOMAIN tree : tree[j].uid = r.uid}
            New(key) == {k \in DOMAIN data'.rows : data'.rows[k].uid = key}
            Cell(k, c) == IF c \in DOMAIN data'.rows[k] THEN data'.rows[k][c] ELSE "no cell"
        IN  /\ \A i \in DOMAIN data.rows :
                  LET r == data.rows[i] IN
                  /\ Cardinality(New(r.uid)) = 1
                  /\ \A k \in New(r.uid) :
                        IF Tree(r) = {}
                        THEN \A c \in DOMAIN r : Cell(k, c) = r[c]
                        ELSE \A j \in Tree(r) :
                                /\ Cell(k, "parent") = tree[j].parent
                                /\ Cell(k, "branch_length") = tree[j].branch_length
                                /\ Cell(k, "type") = tree[j].type
                                /\ "sequence" \in DOMAIN r =>
                                      Cell(k, "sequence") = r.sequence
            /\ \A j \in DOMAIN tree :
                  /\ Cardinality(New(tree[j].uid)) = 1
                  /\ \A k \in New(tree[j].uid) :
                        /\ Cell(k, "parent") = tree[j].parent
                        /\ Cell(k, "branch_length") = tree[j].branch_length
                        /\ Cell(k, "type") = tree[j].type]_vars

\* matched, unmatched and added rows in one merged table
C6_Witness ==
    /\ pc = "idle"
    /\ last.op = "compute_tree" /\ last.result = "ok"
    /\ \E k \in DOMAIN data.rows :
          data.rows[k].uid = "u1" /\ data.rows[k].parent = "n0"
             /\ data.rows[k].sequence = "ACD"
    /\ \E k \in DOMAIN data.rows :
          data.rows[k].uid = "u3" /\ data.rows[k].parent = NaN
             /\ data.rows[k].sequence = "AGE"
    /\ \E k \in DOMAIN data.rows :
          data.rows[k].uid = "n0" /\ data.rows[k].type = "node"

\* C7: read_data looks the name 'read_<schema>' up on the phylo accessor
\* first and on the table when the accessor has none, and calls the method
\* found with path and the options; when neither has the name it fails with
\* the lookup error and no parser is called.
C7_ReadDispatch ==
    last.op = "read_data" =>
        LET name == "read_" \o last.schema IN
        /\ name \in PhyloMethods =>
              last.handler = [target |-> "phylo", method |-> name,
                              path |-> last.path, kwargs |-> last.kwargs]
        /\ (name \notin PhyloMethods /\ name \in FrameMethods) =>
              last.handler = [target |-> "data", method |-> name,
                              path |-> last.path, kwargs |-> last.kwargs]
        /\ (name \notin PhyloMethods /\ name \notin FrameMethods) =>
              /\ last.result = "AttributeError"
              /\ last.handler = NoHandler
        /\ last.result = "AttributeError" => name \notin PhyloMethods \cup FrameMethods

\* the method was found on the table after the accessor had none
C7_Witness ==
    /\ last.op = "read_data" /\ last.result = "ok"
    /\ last.schema = "csv"
    /\ last.handler.target = "data"
    /\ last.handler.kwargs = "{'use_uids': False}"
    /\ Len(data.rows) = MaxSeqs

\* C8: a successful read_data or compute_reconstruction leaves the table
\* equal to what the parser, respectively pyasr.reconstruct, returned, and
\* pyasr.reconstruct is called with the current table, the id and sequence
\* column names, project_dir as working directory, the cutoff and the rate file.
C8_WholesaleReplace ==
    [][(pc = "idle" /\ pc' = "idle") =>
        /\ (last'.op = "read_data" /\ last'.result = "ok") => data' = last'.ret
        /\ (last'.op = "compute_reconstruction" /\ last' # last) =>
              /\ last'.rec.df = data
              /\ last'.rec.id_col = "uid"
              /\ last'.rec.sequence_col = "sequence"
              /\ last'.rec.working_dir = project_dir
              /\ last'.rec.altall_cutoff = "0.2"
              /\ last'.rec.aaRatefile \in {"lg", "jtt"}
              /\ last'.result = "ok" => data' = last'.ret]_vars

\* a merged table (the sequences and the root) was replaced by the one reconstructed row
C8_Witness ==
    /\ pc = "idle"
    /\ last.op = "compute_reconstruction" /\ last.result = "ok"
    /\ Len(last.rec.df.rows) = MaxSeqs + 1
    /\ Len(data.rows) = 1
    /\ data = last.ret

\* C9: compute_tree runs write, run, locate, parse, re-identify, merge in that
\* order, and a non-zero return code of the external process does not stop
\* it: the output file is looked up all the same, and when a parsable tree
\* file is there the call succeeds and merges that file's tree.
C9_ExitCodeIgnored ==
    LET order == <<"to_phylip", "run", "locate", "read_newick", "swap", "combine">>
        Prefix(s) == Len(s) <= Len(order) /\ s = SubSeq(order, 1, Len(s))
    IN  /\ Prefix(ct.steps)
        /\ Prefix(last.steps)
        /\ pc # "idle" => pc = order[Len(ct.steps) + 1]
        /\ (last.op = "compute_tree" /\ last.result = "ok") => last.steps = order
        /\ (last.op = "compute_tree" /\ last.returncode # 0) =>
              "locate" \in Range(last.steps)
        /\ (pc = "idle" /\ last.op = "compute_tree" /\ last.returncode # 0
              /\ last.outpath \in DOMAIN disk /\ disk[last.outpath] = "treeA") =>
              /\ last.result = "ok"
              /\ last.ret = TreeTable("treeA")
              /\ \E k \in DOMAIN data.rows :
                    data.rows[k].uid = "u1" /\ data.rows[k].parent = "n0"

\* the run failed and the tree file in the directory was merged
C9_Witness ==
    /\ pc = "idle"
    /\ last.op = "compute_tree" /\ last.result = "ok" /\ last.returncode = 1
    /\ disk[PrimaryOut] = "treeA"
    /\ \E k \in DOMAIN data.rows : data.rows[k].uid = "n0"

\* C10: read_data, compute_tree and compute_reconstruction assign the table
\* only as their last statement and never assign project_dir: the table
\* changes only in the step that completes a call successfully, project_dir
\* never changes once set, and the steps of compute_tree touch nothing on
\* disk but the three files of the call in the project directory.
C10_FailureLeavesState ==
    [][/\ constructed => project_dir' = project_dir
       /\ data' # data => (pc' = "idle" /\ last'.result = "ok")
       /\ (constructed /\ (pc # "idle" \/ pc' # "idle" \/ last'.op = "compute_tree")) =>
             /\ snapfile' = snapfile
             /\ \A p \in DOMAIN disk :
                   disk'[p] # disk[p] =>
                      p \in {os_path_join(project_dir, f) : f \in FileNames}]_vars

\* a compute_tree call failed on a loaded table and left its input file
C10_Witness ==
    /\ pc = "idle"
    /\ last.op = "compute_tree" /\ last.result = "OutputNotFound"
    /\ Len(data.rows) = MaxSeqs
    /\ disk[os_path_join(project_dir, "compute_tree.phy")] = "phylip"

====
